---- MODULE Spec2Model ----
(***************************************************************************)
(* Paper-trading ledger of SPLLM: the key/value cash row, the positions    *)
(* table and the order log (backend/app/services/sim.py), the admission    *)
(* rules (backend/app/services/rules.py) and the callers that drive them.  *)
(*                                                                         *)
(* Numbers.  The code computes on floats; the model computes on exact      *)
(* rationals.  Money is an integer count of 1/10000 dollar (MoneyScale),   *)
(* so that price * (1 +- slippage_bps/10000) is exact for whole-dollar     *)
(* reference prices and whole basis points.  avg_cost is the only value    *)
(* produced by a division and is kept as a reduced fraction <<num, den>>   *)
(* of money units.  Quantities are whole shares.                           *)
(***************************************************************************)
EXTENDS Integers, Sequences, FiniteSets, TLC

\* ------------------------------------------------------------------ bounds
MaxOrders == 2
MaxDay == 2

\* --------------------------------------------------------------- constants
MoneyScale == 10000
BpsDenominator == 10000
MinutesPerDay == 24 * 60
InitialCashUsd == 100000
SlippageBps == 2
CommissionUsd == 10
MinOrderUsd == 1000
MaxOrdersPerDay == 10
CooldownMinutesAfterExit == 60
\* min_cash_pct = 0.05 = 1/MinCashPctInverse
MinCashPctInverse == 20
MaxPositions == 15

Usd(d) == d * MoneyScale

Tickers == {"AAPL", "MSFT"}
Sides == {"BUY", "SELL"}
Quantities == {10, 15}
Prices == {100, 110}
TimeStamps == {d * MinutesPerDay : d \in 0..(MaxDay - 1)}
Kinds == {"cash", "position", "order"}
InitialCashChoices == {0, 1500, InitialCashUsd}

VARIABLES kv, positions, orders, last, settings, inflight, backtest
vars == <<kv, positions, orders, last, settings, inflight, backtest>>

\* the limits of configs/sim_config.yaml read by evaluate_order, fixed when the
\* process loads them; the defaults of core/config.py
DefaultSettings == [max_positions |-> MaxPositions, max_orders_per_day |-> MaxOrdersPerDay]

\* ---------------------------------------------------------------- helpers
Min(a, b) == IF a < b THEN a ELSE b
Abs(a) == IF a < 0 THEN 0 - a ELSE a

RECURSIVE GCD(_, _)
GCD(a, b) == IF b = 0 THEN Abs(a) ELSE GCD(b, a % b)

\* the reduced fraction n/d (d > 0)
Frac(n, d) == LET g == GCD(n, d) IN IF g = 0 THEN <<0, 1>> ELSE <<n \div g, d \div g>>
Zero == <<0, 1>>

\* ------------------------------------------------------------ the database
\* KV row "cash": absent until the first set_cash
NoCash == [present |-> FALSE, value |-> 0]
\* Position(ticker, quantity, avg_cost); present = the row exists
NoPosition == [present |-> FALSE, quantity |-> 0, avg_cost |-> Zero]
EmptyDb == [kv |-> NoCash, positions |-> [t \in Tickers |-> NoPosition], orders |-> <<>>]

\* A Session: the committed database, the unit of work staged on top of it,
\* the kinds of rows the unit of work has touched, the kinds made durable
\* by this session's commits, and whether an exception has been raised.
SessionLocal(db) ==
    [durable |-> db, staged |-> db, pending |-> {}, writes |-> {}, raised |-> FALSE]

\* Session.commit(): a unit of work with nothing pending does not reach the
\* database; otherwise it is made durable as a whole, or (fault) discarded
\* as a whole and the error raised to the caller.
db_commit(sess, fault) ==
    IF sess.raised \/ sess.pending = {} THEN sess
    ELSE IF fault
         THEN [sess EXCEPT !.staged = sess.durable, !.pending = {}, !.raised = TRUE]
         ELSE [sess EXCEPT !.durable = sess.staged, !.pending = {},
                           !.writes = @ \cup sess.pending]

get_cash(db) == IF db.kv.present THEN db.kv.value ELSE 0

set_cash(sess, amount, fault) ==
    IF sess.raised THEN sess
    ELSE db_commit([sess EXCEPT !.staged.kv = [present |-> TRUE, value |-> amount],
                                !.pending = @ \cup {"cash"}], fault)

ensure_initialized_overwriting(sess, initial_cash, fault) ==
    set_cash(sess, initial_cash, fault)

\* "if not get_cash(db)": a balance of 0 taken for a missing row
ensure_initialized_if_zero(sess, initial_cash, fault) ==
    IF ~sess.staged.kv.present \/ sess.staged.kv.value = 0
    THEN set_cash(sess, initial_cash, fault) ELSE sess

ensure_initialized(sess, initial_cash, fault) ==
    IF ~sess.staged.kv.present THEN set_cash(sess, initial_cash, fault) ELSE sess

\* ------------------------------------------------------------- apply_order
slip_mult_favourable(side, slippage_bps) ==
    IF side = "BUY" THEN BpsDenominator - slippage_bps ELSE BpsDenominator + slippage_bps

\* slippage subtracted for the literal SELL only
slip_mult_sell_only(side, slippage_bps) ==
    IF side = "SELL" THEN BpsDenominator - slippage_bps ELSE BpsDenominator + slippage_bps

slip_mult(side, slippage_bps) ==
    IF side = "BUY" THEN BpsDenominator + slippage_bps ELSE BpsDenominator - slippage_bps

\* price in dollars; the result in money units
fill_price_of(side, price, slippage_bps) == price * slip_mult(side, slippage_bps)

\* the Position row of the ticker, created at quantity 0 when missing
get_or_add_position(db, ticker) ==
    IF db.positions[ticker].present THEN db.positions[ticker]
    ELSE [present |-> TRUE, quantity |-> 0, avg_cost |-> Zero]

buy_avg_cost_unweighted(pos, quantity, fill_price) ==
    IF pos.quantity + quantity > 0 THEN Frac(fill_price, 1) ELSE Zero

buy_avg_cost(pos, quantity, fill_price) ==
    LET notional == quantity * fill_price
        new_qty == pos.quantity + quantity
    IN IF new_qty > 0
       THEN Frac(pos.avg_cost[1] * pos.quantity + notional * pos.avg_cost[2],
                 pos.avg_cost[2] * new_qty)
       ELSE Zero

apply_buy(pos, quantity, fill_price) ==
    [pos EXCEPT !.avg_cost = buy_avg_cost(pos, quantity, fill_price),
                !.quantity = pos.quantity + quantity]

sell_qty_of_unclamped(quantity, held) == quantity

sell_qty_of(quantity, held) == Min(quantity, held)

sell_avg_cost_kept(pos, new_quantity) == pos.avg_cost

sell_avg_cost(pos, new_quantity) == IF new_quantity = 0 THEN Zero ELSE pos.avg_cost

\* the row dropped when the position is sold out
apply_sell_deleting(pos, quantity) ==
    LET sell_qty == sell_qty_of(quantity, pos.quantity)
    IN IF pos.quantity - sell_qty = 0 THEN NoPosition
       ELSE [pos EXCEPT !.quantity = pos.quantity - sell_qty]

apply_sell(pos, quantity) ==
    LET sell_qty == sell_qty_of(quantity, pos.quantity)
    IN [pos EXCEPT !.quantity = pos.quantity - sell_qty,
                   !.avg_cost = sell_avg_cost(pos, pos.quantity - sell_qty)]

cash_after_requested(cash, side, pos, quantity, fill_price, commission) ==
    IF side = "BUY" THEN cash - quantity * fill_price - commission
    ELSE cash + quantity * fill_price - commission

\* the cash after the trade and the commission
cash_after(cash, side, pos, quantity, fill_price, commission) ==
    IF side = "BUY" THEN cash - quantity * fill_price - commission
    ELSE cash + sell_qty_of(quantity, pos.quantity) * fill_price - commission

order_quantity(quantity, sell_qty) == quantity

Order(ts_et, ticker, side, quantity, price, slippage_bps, commission_usd, reason) ==
    [ts_et |-> ts_et, ticker |-> ticker, side |-> side, quantity |-> quantity,
     price |-> price, slippage_bps |-> slippage_bps, commission_usd |-> commission_usd,
     reason |-> reason]

\* the newest Order row updated in place instead of a new row added
stage_trade_overwriting(sess, ts_et, ticker, side, quantity, fill_price, slippage_bps, commission, reason) ==
    LET pos == get_or_add_position(sess.staged, ticker)
        new_pos == IF side = "BUY" THEN apply_buy(pos, quantity, fill_price)
                   ELSE apply_sell(pos, quantity)
        order == Order(ts_et, ticker, side,
                       order_quantity(quantity, sell_qty_of(quantity, pos.quantity)),
                       fill_price, slippage_bps, commission, reason)
    IN [sess EXCEPT !.staged.positions[ticker] = new_pos,
                    !.staged.orders = IF @ = <<>> THEN <<order>>
                                      ELSE [@ EXCEPT ![Len(@)] = order],
                    !.pending = @ \cup {"position", "order"}]

\* the Position rows of the other tickers cleared
stage_trade_clearing_others(sess, ts_et, ticker, side, quantity, fill_price, slippage_bps, commission, reason) ==
    LET pos == get_or_add_position(sess.staged, ticker)
        new_pos == IF side = "BUY" THEN apply_buy(pos, quantity, fill_price)
                   ELSE apply_sell(pos, quantity)
        order == Order(ts_et, ticker, side,
                       order_quantity(quantity, sell_qty_of(quantity, pos.quantity)),
                       fill_price, slippage_bps, commission, reason)
    IN [sess EXCEPT !.staged.positions = [t \in Tickers |-> IF t = ticker THEN new_pos
                                                            ELSE NoPosition],
                    !.staged.orders = Append(@, order),
                    !.pending = @ \cup {"position", "order"}]

\* the session after db.add(pos), the position update and db.add(order)
stage_trade(sess, ts_et, ticker, side, quantity, fill_price, slippage_bps, commission, reason) ==
    LET pos == get_or_add_position(sess.staged, ticker)
        new_pos == IF side = "BUY" THEN apply_buy(pos, quantity, fill_price)
                   ELSE apply_sell(pos, quantity)
        order == Order(ts_et, ticker, side,
                       order_quantity(quantity, sell_qty_of(quantity, pos.quantity)),
                       fill_price, slippage_bps, commission, reason)
    IN [sess EXCEPT !.staged.positions[ticker] = new_pos,
                    !.staged.orders = Append(@, order),
                    !.pending = @ \cup {"position", "order"}]

\* set_cash (and its commit) ahead of db.add(order)
apply_order_cash_first(sess, ts_et, ticker, side, quantity, price, slippage_bps, commission_usd, reason, faultAt) ==
    LET fill_price == fill_price_of(side, price, slippage_bps)
        commission == Usd(commission_usd)
        pos == get_or_add_position(sess.staged, ticker)
        cash == cash_after(get_cash(sess.staged), side, pos, quantity, fill_price, commission)
        s1 == set_cash(sess, cash, faultAt = 1)
        s2 == IF s1.raised THEN s1
              ELSE stage_trade(s1, ts_et, ticker, side, quantity, fill_price,
                               slippage_bps, commission, reason)
    IN db_commit(s2, faultAt = 2)

\* faultAt: the commit of this call (1 = inside set_cash, 2 = the trailing
\* db.commit()) at which the store fails, 0 for none
apply_order(sess, ts_et, ticker, side, quantity, price, slippage_bps, commission_usd, reason, faultAt) ==
    LET fill_price == fill_price_of(side, price, slippage_bps)
        commission == Usd(commission_usd)
        pos == get_or_add_position(sess.staged, ticker)
        cash == cash_after(get_cash(sess.staged), side, pos, quantity, fill_price, commission)
        s1 == stage_trade(sess, ts_et, ticker, side, quantity, fill_price,
                          slippage_bps, commission, reason)
        s2 == set_cash(s1, cash, faultAt = 1)
    IN db_commit(s2, faultAt = 2)

\* ---------------------------------------------------------- evaluate_order
NoExit == 0 - 1
RuleDecision(accepted, adjusted_quantity, reasons) ==
    [accepted |-> accepted, adjusted_quantity |-> adjusted_quantity, reasons |-> reasons]

minutes_since(dt, ref) == ref - dt

\* x < c / inverse over the rationals: x < ceil(c / inverse) for an integer x
BelowFraction(x, c, inverse) == x < 0 - ((0 - c) \div inverse)

\* str.upper() on the side strings the callers pass
Upper(side) ==
    IF side = "buy" THEN "BUY" ELSE IF side = "sell" THEN "SELL" ELSE side

day_limit_reached_strict(day_orders_count) == day_orders_count > settings.max_orders_per_day

day_limit_reached(day_orders_count) == day_orders_count >= settings.max_orders_per_day

min_order_breach_wrong_side(side, notional) == side = "SELL" /\ notional < MinOrderUsd

min_order_breach(side, notional) == side = "BUY" /\ notional < MinOrderUsd

adjusted_quantity_unconditional(accepted, quantity) == IF quantity > 0 THEN quantity ELSE 0

adjusted_quantity_of(accepted, quantity) ==
    IF accepted THEN (IF quantity > 0 THEN quantity ELSE 0) ELSE 0

cooldown_reasons(now_et, ticker, last_exit_time_by_ticker) ==
    IF /\ last_exit_time_by_ticker[ticker] # NoExit
       /\ minutes_since(last_exit_time_by_ticker[ticker], now_et) < CooldownMinutesAfterExit
    THEN <<"cooldown_active">> ELSE <<>>

cash_buffer_reasons_any_side(side, notional, cash) ==
    IF BelowFraction(cash - Usd(notional) - Usd(CommissionUsd), cash, MinCashPctInverse)
    THEN <<"min_cash_buffer_breach">> ELSE <<>>

cash_buffer_reasons(side, notional, cash) ==
    IF side = "BUY" /\ BelowFraction(cash - Usd(notional) - Usd(CommissionUsd), cash,
                                     MinCashPctInverse)
    THEN <<"min_cash_buffer_breach">> ELSE <<>>

max_positions_reasons_any_buy(db, side, current_qty) ==
    IF /\ side = "BUY"
       /\ Cardinality({t \in Tickers : db.positions[t].present
                                       /\ db.positions[t].quantity > 0})
            >= settings.max_positions
    THEN <<"max_positions_reached">> ELSE <<>>

\* names_count > max_positions
max_positions_reasons_over(db, side, current_qty) ==
    IF /\ side = "BUY" /\ current_qty = 0
       /\ Cardinality({t \in Tickers : db.positions[t].present
                                       /\ db.positions[t].quantity > 0})
            > settings.max_positions
    THEN <<"max_positions_reached">> ELSE <<>>

max_positions_reasons(db, side, current_qty) ==
    IF /\ side = "BUY" /\ current_qty = 0
       /\ Cardinality({t \in Tickers : db.positions[t].present
                                       /\ db.positions[t].quantity > 0})
            >= settings.max_positions
    THEN <<"max_positions_reached">> ELSE <<>>

\* quantity in shares, reference_price in dollars, cash in money units
evaluate_order(db, now_et, ticker, side, quantity, reference_price, cash, day_orders_count, last_exit_time_by_ticker) ==
    IF day_limit_reached(day_orders_count)
    THEN RuleDecision(FALSE, 0, <<"max_orders_per_day_exceeded">>)
    ELSE LET current_qty == IF db.positions[ticker].present
                            THEN db.positions[ticker].quantity ELSE 0
             notional == Abs(quantity) * reference_price
         IN IF min_order_breach(Upper(side), notional)
            THEN RuleDecision(FALSE, 0, <<"min_order_breach">>)
            ELSE LET reasons == cooldown_reasons(now_et, ticker, last_exit_time_by_ticker)
                                \o cash_buffer_reasons(Upper(side), notional, cash)
                                \o max_positions_reasons(db, Upper(side), current_qty)
                     accepted == Len(reasons) = 0
                 IN RuleDecision(accepted, adjusted_quantity_of(accepted, quantity), reasons)

\* the Position row of the ticker fetched with get-or-create and committed
evaluate_order_effects_creating(sess, ticker, last_exit_time_by_ticker) ==
    [sess |-> db_commit([sess EXCEPT
                           !.staged.positions[ticker] = get_or_add_position(sess.staged, ticker),
                           !.pending = @ \cup {"position"}], FALSE),
     last_exit_map |-> last_exit_time_by_ticker]

\* what a call leaves behind besides its decision: the session and the
\* caller's map.  The body issues two queries, reads the map with .get and
\* makes no add, no assignment to a row, no flush and no commit.
evaluate_order_effects(sess, ticker, last_exit_time_by_ticker) ==
    [sess |-> sess, last_exit_map |-> last_exit_time_by_ticker]

\* --------------------------------------------------------- simulate_orders
count_after_stuck(day_orders_count) == day_orders_count

\* day_orders_count += 1
count_after(day_orders_count) == day_orders_count + 1

\* one iteration of the proposals loop; fault: the store fails at the
\* commit of this proposal's apply_order
simulate_proposal(st, p, ts, fault) ==
    IF st.sess.raised THEN st
    ELSE LET rule == evaluate_order(st.sess.staged, ts, p.ticker, p.action, p.quantity,
                                    p.ref_price, st.cash, st.day_orders_count,
                                    st.last_exit_map)
         IN IF ~rule.accepted
            THEN [st EXCEPT !.results = Append(@, [ticker |-> p.ticker, side |-> p.action,
                                                   accepted |-> FALSE,
                                                   reasons |-> rule.reasons])]
            ELSE LET s == apply_order(st.sess, ts, p.ticker, p.action,
                                      rule.adjusted_quantity, p.ref_price, SlippageBps,
                                      CommissionUsd, "llm", IF fault THEN 1 ELSE 0)
                 IN IF s.raised THEN [st EXCEPT !.sess = s]
                    ELSE [sess |-> s,
                          cash |-> get_cash(s.staged),
                          day_orders_count |-> count_after(st.day_orders_count),
                          last_exit_map |-> IF p.action = "SELL"
                                            THEN [st.last_exit_map EXCEPT ![p.ticker] = ts]
                                            ELSE st.last_exit_map,
                          results |-> Append(st.results,
                                             [ticker |-> p.ticker, side |-> p.action,
                                              accepted |-> TRUE, reasons |-> <<>>])]

RECURSIVE simulate_loop(_, _, _, _)
simulate_loop(st, proposals, ts, faultIdx) ==
    IF proposals = <<>> THEN st
    ELSE LET n == Len(proposals)
         IN simulate_proposal(simulate_loop(st, SubSeq(proposals, 1, n - 1), ts, faultIdx),
                              proposals[n], ts, faultIdx = n)

simulate_orders(sess, initial_cash, ts, proposals, faultIdx) ==
    LET s0 == ensure_initialized(sess, initial_cash, FALSE)
    IN simulate_loop([sess |-> s0, cash |-> get_cash(s0.staged), day_orders_count |-> 0,
                      last_exit_map |-> [t \in Tickers |-> NoExit], results |-> <<>>],
                     proposals, ts, faultIdx)

\* ------------------------------------------------------------------ state
Db == [kv |-> kv, positions |-> positions, orders |-> orders]

\* the threads of the pool that serves the synchronous endpoints; each is
\* idle or inside an apply_order call between its reads and its commit
Workers == {1, 2}
Idle == [busy |-> FALSE, ticker |-> "", sess |-> SessionLocal(EmptyDb)]
NoInflight == [w \in Workers |-> Idle]

\* the background task of POST /backtest: not created (idle), created
\* (started), inside the loop of run_backtest_range at day cur (running),
\* ended by an exception of its set-up (failed), or returned (done); events
\* are the backtest_progress payloads handed to bus.publish
NoBacktest == [phase |-> "idle", start |-> 0, end |-> 0, cur |-> 0, events |-> <<>>]

NoDecision == RuleDecision(FALSE, 0, <<>>)
NoCall == [op |-> "none", ticker |-> "", side |-> "", quantity |-> 0, price |-> 0,
           held |-> 0, raised |-> FALSE, writes |-> {}, results |-> <<>>,
           initial_cash |-> 0, now_et |-> 0, cash |-> 0, day_orders_count |-> 0,
           last_exit |-> <<>>, last_exit_after |-> <<>>, decision |-> NoDecision,
           start |-> 0, end |-> 0, closes |-> <<>>, handed |-> <<>>, series |-> <<>>]

\* the database after the call, and the record of the call: its arguments
\* when it returned, the operation alone when it raised
Install(sess, call) ==
    /\ kv' = sess.durable.kv
    /\ positions' = sess.durable.positions
    /\ orders' = sess.durable.orders
    /\ settings' = settings
    /\ inflight' = inflight
    /\ backtest' = backtest
    /\ last' = IF sess.raised
               THEN [NoCall EXCEPT !.op = call.op, !.raised = TRUE, !.writes = sess.writes]
               ELSE [call EXCEPT !.writes = sess.writes]

Init ==
    /\ kv = NoCash
    /\ positions = [t \in Tickers |-> NoPosition]
    /\ orders = <<>>
    /\ last = NoCall
    /\ settings = DefaultSettings
    /\ inflight = NoInflight
    /\ backtest = NoBacktest

\* GET /portfolio: ensure_initialized(db, settings.initial_cash_usd), then reads
EnsureInitialized ==
    \E fault \in BOOLEAN :
        Install(ensure_initialized(SessionLocal(Db), Usd(InitialCashUsd), fault),
                [NoCall EXCEPT !.op = "ensure_initialized",
                               !.initial_cash = Usd(InitialCashUsd)])

\* one apply_order call on a fresh session with the configured slippage and
\* commission, as POST /orders/market makes it
PlaceOrder(TS, Q, P) ==
    /\ Len(orders) < MaxOrders
    /\ \E ts \in TS, t \in Tickers, side \in Sides, q \in Q, p \in P, faultAt \in 0..2 :
        Install(apply_order(SessionLocal(Db), ts, t, side, q, p, SlippageBps,
                            CommissionUsd, "manual", faultAt),
                [NoCall EXCEPT !.op = "apply_order", !.ticker = t, !.side = side,
                               !.quantity = q, !.price = p,
                               !.held = positions[t].quantity])

\* any ticker, side, size, price and timestamp
ApplyOrder == PlaceOrder(TimeStamps, Quantities, Prices)

Next == EnsureInitialized \/ ApplyOrder

Spec == Init /\ [][Next]_vars

\* ------------------------------------ bootstrap with any initial_cash_usd
\* ensure_initialized with the initial cash of the configuration in force
EnsureInitializedAny ==
    \E c \in InitialCashChoices, fault \in BOOLEAN :
        Install(ensure_initialized(SessionLocal(Db), Usd(c), fault),
                [NoCall EXCEPT !.op = "ensure_initialized", !.initial_cash = Usd(c)])

NextBoot == EnsureInitializedAny \/ ApplyOrder

SpecBoot == Init /\ [][NextBoot]_vars

\* ------------------------------------------------- the ledger after bootstrap
InitLedger ==
    /\ kv = [present |-> TRUE, value |-> Usd(InitialCashUsd)]
    /\ positions = [t \in Tickers |-> NoPosition]
    /\ orders = <<>>
    /\ last = [NoCall EXCEPT !.op = "ensure_initialized", !.writes = {"cash"}]
    /\ settings = DefaultSettings
    /\ inflight = NoInflight
    /\ backtest = NoBacktest

NextLedger == ApplyOrder

SpecLedger == InitLedger /\ [][NextLedger]_vars

\* ---------------------------------------------- one fill, any slippage/price
SlippageRange == {0, 1, 2, 50, 10000, 10001}
PriceRange == {0, 1, 100, 110}

ApplyOrderAnyFill ==
    /\ Len(orders) < 1
    /\ \E ts \in TimeStamps, t \in Tickers, side \in Sides, q \in Quantities,
          p \in PriceRange, bps \in SlippageRange :
        Install(apply_order(SessionLocal(Db), ts, t, side, q, p, bps,
                            CommissionUsd, "manual", 0),
                [NoCall EXCEPT !.op = "apply_order", !.ticker = t, !.side = side,
                               !.quantity = q, !.price = p,
                               !.held = positions[t].quantity])

NextFill == ApplyOrderAnyFill

SpecFill == InitLedger /\ [][NextFill]_vars

\* ------------------------------------------------- the admission pipeline
MaxBatch == 2
Proposals == [ticker : Tickers, action : Sides, quantity : Quantities, ref_price : Prices]
Batches == UNION {[1..n -> Proposals] : n \in 1..MaxBatch}

InitSim ==
    /\ \E c \in InitialCashChoices : kv = [present |-> TRUE, value |-> Usd(c)]
    /\ positions = [t \in Tickers |-> NoPosition]
    /\ orders = <<>>
    /\ last = [NoCall EXCEPT !.op = "ensure_initialized", !.writes = {"cash"}]
    /\ settings = DefaultSettings
    /\ inflight = NoInflight
    /\ backtest = NoBacktest

\* POST /simulate with a batch of proposals and a decision_time
Simulate(TS, B) ==
    \E ts \in TS, proposals \in B :
        /\ Len(orders) + Len(proposals) <= MaxOrders
        /\ \E faultIdx \in 0..Len(proposals) :
            LET st == simulate_orders(SessionLocal(Db), Usd(InitialCashUsd), ts,
                                      proposals, faultIdx)
            IN Install(st.sess, [NoCall EXCEPT !.op = "simulate_orders",
                                               !.day_orders_count = st.day_orders_count,
                                               !.results = st.results])

SimulateOrders == Simulate(TimeStamps, Batches)

NextSim == SimulateOrders

SpecSim == InitSim /\ [][NextSim]_vars

\* ------------------------------------------------ the application's operations
OriginalBalanceChoices == {50000, InitialCashUsd}

\* startup: RESET_BALANCE_ON_START and ORIGINAL_BALANCE_USD from the
\* environment; an error of set_cash is swallowed
start_auto_trader(sess, reset_balance_on_start, original_balance_set, orig, fault) ==
    IF reset_balance_on_start /\ original_balance_set
    THEN [set_cash(sess, Usd(orig), fault) EXCEPT !.raised = FALSE]
    ELSE sess

StartAutoTrader ==
    \E reset \in BOOLEAN, origSet \in BOOLEAN, orig \in OriginalBalanceChoices,
       fault \in BOOLEAN :
        Install(start_auto_trader(SessionLocal(Db), reset, origSet, orig, fault),
                [NoCall EXCEPT !.op = "start_auto_trader"])

\* the requests of this specification: one size, one price, one instant
AppBatches == UNION {[1..n -> {p \in Proposals : p.quantity = 10 /\ p.ref_price = 100}] :
                     n \in 1..MaxBatch}

PlaceMarketOrder == PlaceOrder({0}, {10}, {100})

SimulateRequest == Simulate({0}, AppBatches)

NextApp == StartAutoTrader \/ EnsureInitialized \/ PlaceMarketOrder \/ SimulateRequest

SpecApp == InitLedger /\ [][NextApp]_vars

\* ------------------------------------------------- evaluate_order by itself
\* a configuration with tight limits beside the default one
SettingsChoices == {DefaultSettings, [max_positions |-> 1, max_orders_per_day |-> 2]}
EvalTimes == {0, CooldownMinutesAfterExit - 1, CooldownMinutesAfterExit}
EvalSides == {"BUY", "SELL", "buy"}
EvalQuantities == {0 - 10, 5, 10}
EvalPrices == {100}
EvalCash == {Usd(1063), Usd(1064), Usd(InitialCashUsd)}
EvalCounts == {0, 2, MaxOrdersPerDay, MaxOrdersPerDay + 1}
EvalExitMaps == {[t \in Tickers |-> NoExit],
                 [t \in Tickers |-> IF t = "AAPL" THEN 0 ELSE NoExit]}

InitRules ==
    /\ kv = [present |-> TRUE, value |-> Usd(InitialCashUsd)]
    /\ positions = [t \in Tickers |-> NoPosition]
    /\ orders = <<>>
    /\ last = [NoCall EXCEPT !.op = "ensure_initialized", !.writes = {"cash"}]
    /\ settings \in SettingsChoices
    /\ inflight = NoInflight
    /\ backtest = NoBacktest

\* one evaluate_order call against the current ledger, the other arguments
\* as a caller may pass them; one evaluation is recorded per ledger state
EvaluateOrder ==
    /\ last.op # "evaluate_order"
    /\ \E now \in EvalTimes, t \in Tickers, side \in EvalSides, q \in EvalQuantities,
       p \in EvalPrices, cash \in EvalCash, n \in EvalCounts, exits \in EvalExitMaps :
        LET eff == evaluate_order_effects(SessionLocal(Db), t, exits)
        IN Install(eff.sess,
                   [NoCall EXCEPT !.op = "evaluate_order", !.ticker = t, !.side = side,
                                  !.quantity = q, !.price = p,
                                  !.held = positions[t].quantity,
                                  !.now_et = now, !.cash = cash,
                                  !.day_orders_count = n, !.last_exit = exits,
                                  !.last_exit_after = eff.last_exit_map,
                                  !.decision = evaluate_order(Db, now, t, side, q, p, cash,
                                                              n, exits)])

NextRules == PlaceMarketOrder \/ EvaluateOrder

SpecRules == InitRules /\ [][NextRules]_vars

\* ------------------------------------------- requests under tight limits
\* a configuration of one position and one order per day beside the default
LimitSettings == {DefaultSettings, [max_positions |-> 1, max_orders_per_day |-> 1]}

InitLimits ==
    /\ kv = [present |-> TRUE, value |-> Usd(InitialCashUsd)]
    /\ positions = [t \in Tickers |-> NoPosition]
    /\ orders = <<>>
    /\ last = [NoCall EXCEPT !.op = "ensure_initialized", !.writes = {"cash"}]
    /\ settings \in LimitSettings
    /\ inflight = NoInflight
    /\ backtest = NoBacktest

SimulateLimited == Simulate(TimeStamps, AppBatches)

NextLimits == SimulateLimited

SpecLimits == InitLimits /\ [][NextLimits]_vars

\* ------------------------------------------- requests around an exit
MaxExitOrders == 3
ExitTimes == {0, CooldownMinutesAfterExit - 1, CooldownMinutesAfterExit}
ExitBatches == UNION {[1..n -> {p \in Proposals : p.quantity = 10 /\ p.ref_price = 100}] :
                      n \in 1..MaxBatch}

\* POST /simulate requests with decision times inside and at the end of the
\* cooldown window; each request starts from an empty last_exit_map
SimulateAroundExit ==
    \E ts \in ExitTimes, proposals \in ExitBatches :
        /\ Len(orders) + Len(proposals) <= MaxExitOrders
        /\ \E faultIdx \in 0..Len(proposals) :
            LET st == simulate_orders(SessionLocal(Db), Usd(InitialCashUsd), ts,
                                      proposals, faultIdx)
            IN Install(st.sess, [NoCall EXCEPT !.op = "simulate_orders", !.now_et = ts,
                                               !.results = st.results])

NextCooldown == SimulateAroundExit

SpecCooldown == InitLedger /\ [][NextCooldown]_vars

\* ------------------------------------- apply_order calls on pool threads
\* simulate_orders is a plain def: the framework runs each request on a
\* thread of its pool, with a Session and a connection of its own, and no
\* lock is taken around apply_order.  A call is split where another thread
\* can run: after its reads (the Position select and get_cash) and before
\* its flush and commit.

\* the session after the reads and the in-memory updates of apply_order,
\* nothing flushed yet
apply_order_reads(sess, ts_et, ticker, side, quantity, price, slippage_bps, commission_usd, reason) ==
    LET fill_price == fill_price_of(side, price, slippage_bps)
        commission == Usd(commission_usd)
        pos == get_or_add_position(sess.staged, ticker)
        cash == cash_after(get_cash(sess.staged), side, pos, quantity, fill_price, commission)
        s1 == stage_trade(sess, ts_et, ticker, side, quantity, fill_price,
                          slippage_bps, commission, reason)
    IN [s1 EXCEPT !.staged.kv = [present |-> TRUE, value |-> cash],
                  !.pending = @ \cup {"cash"}]

\* the commit of set_cash: the rows of the unit of work written over the
\* database as it is now.  The cash row and a Position row loaded earlier
\* are UPDATEd, the Order row and a Position row created by this session
\* are INSERTed; an INSERT of a ticker that has a row by now breaks the
\* unique index, and the whole unit is rolled back.
flush_commit(db, sess, ticker) ==
    IF \/ (~sess.durable.positions[ticker].present /\ db.positions[ticker].present)
       \/ (~sess.durable.kv.present /\ db.kv.present)
    THEN [sess EXCEPT !.durable = db, !.staged = db, !.pending = {}, !.raised = TRUE]
    ELSE LET written == [kv |-> sess.staged.kv,
                         positions |-> [db.positions EXCEPT
                                          ![ticker] = sess.staged.positions[ticker]],
                         orders |-> Append(db.orders,
                                           sess.staged.orders[Len(sess.staged.orders)])]
         IN [sess EXCEPT !.durable = written, !.staged = written, !.pending = {},
                         !.writes = @ \cup sess.pending]

\* a thread enters apply_order and runs up to set_cash
BeginApply(w) ==
    /\ ~inflight[w].busy
    /\ Len(orders) + Cardinality({v \in Workers : inflight[v].busy}) < MaxOrders
    /\ \E t \in Tickers, q \in Quantities, p \in Prices :
        inflight' = [inflight EXCEPT ![w] =
                       [busy |-> TRUE, ticker |-> t,
                        sess |-> apply_order_reads(SessionLocal(Db), 0, t, "BUY", q, p,
                                                   SlippageBps, CommissionUsd, "llm")]]
    /\ last' = [NoCall EXCEPT !.op = "apply_order_reads"]
    /\ UNCHANGED <<kv, positions, orders, settings, backtest>>

\* the thread flushes and commits
FinishApply(w) ==
    /\ inflight[w].busy
    /\ LET s == flush_commit(Db, inflight[w].sess, inflight[w].ticker)
       IN /\ kv' = s.durable.kv
          /\ positions' = s.durable.positions
          /\ orders' = s.durable.orders
          /\ last' = [NoCall EXCEPT !.op = "apply_order", !.raised = s.raised,
                                    !.writes = s.writes]
    /\ inflight' = [inflight EXCEPT ![w] = Idle]
    /\ UNCHANGED <<settings, backtest>>

NextPool == \E w \in Workers : BeginApply(w) \/ FinishApply(w)

SpecPool == InitLedger /\ [][NextPool]_vars

\* ------------------------------------------ intents as the clients send them
\* payload["side"].upper() / p["action"].upper() and float(payload["quantity"])
\* accept any string and any number
IntentSides == {"BUY", "SELL", "HOLD"}
IntentQuantities == {0 - 10, 0, 10}
IntentProposals == [ticker : {"AAPL"}, action : IntentSides, quantity : IntentQuantities, ref_price : {100}]
IntentBatches == UNION {[1..n -> IntentProposals] : n \in 1..MaxBatch}

\* POST /orders/market with any side and quantity
PlaceIntent ==
    /\ Len(orders) < MaxOrders
    /\ \E t \in Tickers, side \in IntentSides, q \in IntentQuantities :
        Install(apply_order(SessionLocal(Db), 0, t, side, q, 100, SlippageBps,
                            CommissionUsd, "manual", 0),
                [NoCall EXCEPT !.op = "apply_order", !.ticker = t, !.side = side,
                               !.quantity = q, !.price = 100,
                               !.held = positions[t].quantity])

\* POST /simulate with any action and quantity
SimulateIntents == Simulate({0}, IntentBatches)

NextIntents == PlaceIntent \/ SimulateIntents

SpecIntents == InitLedger /\ [][NextIntents]_vars

\* ------------------------------------------------------------ equity replay
RECURSIVE InsertByTs(_, _)
InsertByTs(sorted, o) ==
    IF sorted = <<>> THEN <<o>>
    ELSE IF sorted[Len(sorted)].ts_et <= o.ts_et THEN Append(sorted, o)
    ELSE Append(InsertByTs(SubSeq(sorted, 1, Len(sorted) - 1), o), sorted[Len(sorted)])

\* order_by(Order.ts_et.asc()), ties in insertion order
RECURSIVE OrderByTs(_)
OrderByTs(log) ==
    IF log = <<>> THEN <<>>
    ELSE InsertByTs(OrderByTs(SubSeq(log, 1, Len(log) - 1)), log[Len(log)])

\* the body of the replay loop for one order
replay_order(st, o) ==
    IF o.side = "BUY"
    THEN [cash |-> st.cash - o.quantity * o.price - o.commission_usd,
          positions |-> [st.positions EXCEPT ![o.ticker] = @ + o.quantity]]
    ELSE [cash |-> st.cash + o.quantity * o.price - o.commission_usd,
          positions |-> [st.positions EXCEPT ![o.ticker] = @ - o.quantity]]

RECURSIVE replay(_, _)
replay(ordered, initial_cash) ==
    IF ordered = <<>> THEN [cash |-> initial_cash, positions |-> [t \in Tickers |-> 0]]
    ELSE replay_order(replay(SubSeq(ordered, 1, Len(ordered) - 1), initial_cash),
                      ordered[Len(ordered)])

\* --------------------------------------------------------- calendar dates
Dates == 0..MaxDay

\* ------------------------------------------------------------ POST /backtest
\* settings.cadence.decision_windows_et, 10:00 and 15:30, in minutes of the day
DecisionWindows == <<600, 930>>
\* what propose_trades may return for a window: nothing, or proposals
DayProposals == [ticker : {"AAPL"}, action : Sides, quantity : {10}]
DayBatches == UNION {[1..n -> DayProposals] : n \in 0..MaxBatch}
\* what goes wrong in a day: nothing, the store at the first commit of
\* apply_order, or write_jsonl after the first window
DayFaults == {"none", "commit", "log"}

\* one iteration of the proposals loop of a window: ref_price = 0.0 and an
\* empty last-exit map
simulate_day_proposal(st, p, ts) ==
    IF st.sess.raised THEN st
    ELSE LET rule == evaluate_order(st.sess.staged, ts, p.ticker, p.action, p.quantity, 0,
                                    st.cash, st.day_orders_count,
                                    [t \in Tickers |-> NoExit])
         IN IF ~rule.accepted THEN st
            ELSE LET s == apply_order(st.sess, ts, p.ticker, p.action,
                                      rule.adjusted_quantity, 0, SlippageBps,
                                      CommissionUsd, "llm", IF st.fault THEN 1 ELSE 0)
                 IN IF s.raised THEN [st EXCEPT !.sess = s]
                    ELSE [sess |-> s, cash |-> get_cash(s.staged),
                          day_orders_count |-> st.day_orders_count + 1, fault |-> FALSE]

RECURSIVE simulate_window(_, _, _)
simulate_window(st, proposals, ts) ==
    IF proposals = <<>> THEN st
    ELSE simulate_day_proposal(simulate_window(st, SubSeq(proposals, 1, Len(proposals) - 1), ts),
                               proposals[Len(proposals)], ts)

\* the first n decision windows of day d; each window reads the cash and
\* starts its order counter at 0
RECURSIVE simulate_windows(_, _, _, _, _)
simulate_windows(sess, d, batches, fault, n) ==
    IF n = 0 THEN [sess |-> sess, fault |-> fault = "commit"]
    ELSE LET before == simulate_windows(sess, d, batches, fault, n - 1)
         IN IF before.sess.raised THEN before
            ELSE LET w == simulate_window([sess |-> before.sess,
                                           cash |-> get_cash(before.sess.staged),
                                           day_orders_count |-> 0, fault |-> before.fault],
                                          batches[n], d * MinutesPerDay + DecisionWindows[n])
                 IN [sess |-> IF n = 1 /\ fault = "log" /\ ~w.sess.raised
                              THEN [w.sess EXCEPT !.raised = TRUE] ELSE w.sess,
                     fault |-> w.fault]

\* the session after simulate_day, raised when the day ended in an exception
simulate_day(sess, d, batches, fault) ==
    simulate_windows(sess, d, batches, fault, Len(DecisionWindows)).sess

\* an exception of the day ends the loop
after_day_aborting(cur, end, raised) == IF raised THEN end + 1 ELSE cur + 1

\* cur = date.fromordinal(cur.toordinal() + 1), whatever the day did
after_day(cur, end, raised) == cur + 1

\* POST /backtest: a reversed range is swapped, the task is created
StartBacktest ==
    /\ backtest.phase = "idle"
    /\ \E start \in Dates, end \in Dates :
        LET start_d == IF end < start THEN end ELSE start
            end_d == IF end < start THEN start ELSE end
        IN /\ backtest' = [phase |-> "started", start |-> start_d, end |-> end_d,
                           cur |-> start_d, events |-> <<>>]
           /\ last' = [NoCall EXCEPT !.op = "start_backtest", !.start = start, !.end = end]
    /\ UNCHANGED <<kv, positions, orders, settings, inflight>>

\* the statements of run_backtest_range ahead of its loop, outside any try:
\* ensure_initialized, and the read of configs/universe/tickers.txt, which
\* raises when the file is not there
BacktestSetup ==
    /\ backtest.phase = "started"
    /\ \E universe_present \in BOOLEAN :
        LET s == ensure_initialized(SessionLocal(Db), Usd(InitialCashUsd), FALSE)
        IN /\ kv' = s.durable.kv
           /\ positions' = s.durable.positions
           /\ orders' = s.durable.orders
           /\ backtest' = [backtest EXCEPT
                             !.phase = IF universe_present THEN "running" ELSE "failed"]
           /\ last' = [NoCall EXCEPT !.op = "run_backtest_range",
                                     !.raised = ~universe_present, !.writes = s.writes]
    /\ UNCHANGED <<settings, inflight>>

\* one iteration of the while loop of run_backtest_range: the day
\* simulated, its exception caught, the progress event published with the
\* publisher's exception swallowed, cur advanced
BacktestDay ==
    /\ backtest.phase = "running" /\ backtest.cur <= backtest.end
    /\ \E batches \in [1..Len(DecisionWindows) -> DayBatches], fault \in DayFaults,
          publishFails \in BOOLEAN :
        /\ Len(orders) + Len(batches[1]) + Len(batches[2]) <= MaxOrders
        /\ LET s == simulate_day(SessionLocal(Db), backtest.cur, batches, fault)
           IN /\ kv' = s.durable.kv
              /\ positions' = s.durable.positions
              /\ orders' = s.durable.orders
              /\ backtest' = [backtest EXCEPT
                                !.cur = after_day(backtest.cur, backtest.end, s.raised),
                                !.events = Append(@, [day |-> backtest.cur,
                                                      status |-> IF s.raised THEN "error"
                                                                 ELSE "ok",
                                                      delivered |-> ~publishFails])]
              /\ last' = [NoCall EXCEPT !.op = "simulate_day", !.raised = s.raised,
                                        !.writes = s.writes]
    /\ UNCHANGED <<settings, inflight>>

\* the loop condition fails and run_backtest_range returns
FinishBacktest ==
    /\ backtest.phase = "running" /\ backtest.cur > backtest.end
    /\ backtest' = [backtest EXCEPT !.phase = "done"]
    /\ last' = [NoCall EXCEPT !.op = "run_backtest_range"]
    /\ UNCHANGED <<kv, positions, orders, settings, inflight>>

NextBacktest == StartBacktest \/ BacktestSetup \/ BacktestDay \/ FinishBacktest

SpecBacktest == InitLedger /\ [][NextBacktest]_vars

\* the task is scheduled until it returns: every await of the loop returns
\* (the subscribers' queues are unbounded) and every call of the day is
\* synchronous
SpecBacktestFair ==
    SpecBacktest /\ WF_vars(BacktestSetup) /\ WF_vars(BacktestDay) /\ WF_vars(FinishBacktest)
\* ----------------------------------------------------- GET /equity/range
\* a start or end string that date.fromisoformat does not parse
Malformed == 0 - 1
\* read_day_close returning None
NoClose == 0 - 1

\* ts_et.date()
date_of(ts_et) == ts_et \div MinutesPerDay

\* Order.ts_et >= start_d.isoformat() and Order.ts_et <= end_d.isoformat():
\* the stored text 'YYYY-MM-DD HH:MM:SS.ffffff' compared with 'YYYY-MM-DD'.
\* Every timestamp of the start date compares greater than the bare date,
\* and so does every timestamp of the end date.
in_range(ts_et, start_d, end_d) == date_of(ts_et) >= start_d /\ date_of(ts_et) < end_d

\* the dates daterange(start, end) yields, in order
daterange_exclusive(start, end) == [i \in 1..(end - start) |-> start + i - 1]

daterange(start, end) == [i \in 1..(end - start + 1) |-> start + i - 1]

\* the last close of data/prices/<ticker>/minute/<d>.csv, NoClose without one
read_day_close(closes, ticker, d) == closes[ticker][d]

order_due_strict(o, d) == date_of(o.ts_et) < d

\* orders[order_idx].ts_et.date() <= d
order_due(o, d) == date_of(o.ts_et) <= d

\* the while loop: the orders due by the end of day d applied, the cursor moved
RECURSIVE apply_due(_, _, _)
apply_due(handed, st, d) ==
    IF st.order_idx < Len(handed) /\ order_due(handed[st.order_idx + 1], d)
    THEN LET r == replay_order(st, handed[st.order_idx + 1])
         IN apply_due(handed, [st EXCEPT !.cash = r.cash, !.positions = r.positions,
                                         !.order_idx = @ + 1], d)
    ELSE st

\* only the close of the day itself
last_close_after_forgetting(last_close, held_qty, closes, d) ==
    [t \in Tickers |-> IF held_qty[t] # 0 THEN read_day_close(closes, t, d)
                       ELSE last_close[t]]

\* the last_close map after the mark-to-market loop of day d
last_close_after(last_close, held_qty, closes, d) ==
    [t \in Tickers |-> IF held_qty[t] # 0 /\ read_day_close(closes, t, d) # NoClose
                       THEN read_day_close(closes, t, d) ELSE last_close[t]]

\* qty * px added to equity for each ticker, 0 when skipped
contributions(held_qty, last_close) ==
    [t \in Tickers |-> IF held_qty[t] # 0 /\ last_close[t] # NoClose
                       THEN held_qty[t] * Usd(last_close[t]) ELSE 0]

RECURSIVE SumOver(_, _)
SumOver(f, S) ==
    IF S = {} THEN 0 ELSE LET x == CHOOSE y \in S : TRUE IN f[x] + SumOver(f, S \ {x})

round_cents_down(x) == (x \div 100) * 100

\* round(equity, 2) on money units: the nearest cent, a tie to the even cent
round_cents(x) ==
    LET q == x \div 100
        r == x % 100
    IN IF r < 50 THEN q * 100
       ELSE IF r > 50 THEN (q + 1) * 100
       ELSE IF q % 2 = 0 THEN q * 100 ELSE (q + 1) * 100

\* one iteration of the for loop over the dates
replay_day(handed, closes, st, d) ==
    LET s1 == apply_due(handed, st, d)
        lc == last_close_after(s1.last_close, s1.positions, closes, d)
        contrib == contributions(s1.positions, lc)
        equity == s1.cash + SumOver(contrib, Tickers)
    IN [s1 EXCEPT !.last_close = lc,
                  !.series = Append(@, [date |-> d, equity |-> round_cents(equity),
                                        cash |-> s1.cash, positions |-> s1.positions,
                                        order_idx |-> s1.order_idx, contrib |-> contrib])]

RECURSIVE replay_days(_, _, _, _)
replay_days(handed, closes, initial_cash, dates) ==
    IF dates = <<>>
    THEN [cash |-> initial_cash, positions |-> [t \in Tickers |-> 0], order_idx |-> 0,
          last_close |-> [t \in Tickers |-> NoClose], series |-> <<>>]
    ELSE replay_day(handed, closes,
                    replay_days(handed, closes, initial_cash,
                                SubSeq(dates, 1, Len(dates) - 1)),
                    dates[Len(dates)])

\* the response, with the loop's own values beside each point of the series
get_equity_range(db, start, end, closes, initial_cash) ==
    IF start = Malformed \/ end = Malformed
    THEN [raised |-> TRUE, start |-> start, end |-> end, handed |-> <<>>, series |-> <<>>]
    ELSE LET start_d == IF end < start THEN end ELSE start
             end_d == IF end < start THEN start ELSE end
             handed == OrderByTs(SelectSeq(db.orders,
                                           LAMBDA o : in_range(o.ts_et, start_d, end_d)))
         IN [raised |-> FALSE, start |-> start_d, end |-> end_d, handed |-> handed,
             series |-> replay_days(handed, closes, initial_cash,
                                    daterange(start_d, end_d)).series]

\* closes of 100 and 110 on the first two dates and none after; none at
\* all; none on the first date and 100 after; 100, then a gap, then 110
Rising == [d \in Dates |-> IF d = 0 THEN 100 ELSE IF d = 1 THEN 110 ELSE NoClose]
Missing == [d \in Dates |-> NoClose]
Late == [d \in Dates |-> IF d = 0 THEN NoClose ELSE 100]
Gap == [d \in Dates |-> IF d = 0 THEN 100 ELSE IF d = 1 THEN NoClose ELSE 110]
CloseTables == {[t \in Tickers |-> pat] : pat \in {Rising, Missing, Late}} \cup {[t \in Tickers |-> IF t = "AAPL" THEN Gap ELSE Missing]}

\* orders placed during the day, at a price whose fill has a fraction of a cent
EquityStamps == {d * MinutesPerDay + 600 : d \in 0..(MaxDay - 1)}
PlaceDatedOrder ==
    /\ Len(orders) < MaxOrders
    /\ \E ts \in EquityStamps, t \in Tickers, side \in Sides :
        Install(apply_order(SessionLocal(Db), ts, t, side, 10, 111, SlippageBps,
                            CommissionUsd, "manual", 0),
                [NoCall EXCEPT !.op = "apply_order", !.ticker = t, !.side = side,
                               !.quantity = 10, !.price = 111,
                               !.held = positions[t].quantity])

\* one request per state of the order log
GetEquityRange ==
    /\ last.op # "get_equity_range"
    /\ \E start \in Dates \cup {Malformed}, end \in Dates, closes \in CloseTables :
        LET resp == get_equity_range(Db, start, end, closes, Usd(InitialCashUsd))
        IN /\ last' = [NoCall EXCEPT !.op = "get_equity_range", !.raised = resp.raised,
                                     !.start = start, !.end = end, !.closes = closes,
                                     !.handed = resp.handed, !.series = resp.series]
           /\ UNCHANGED <<kv, positions, orders, settings, inflight, backtest>>

NextEquity == PlaceDatedOrder \/ GetEquityRange

SpecEquity == InitLedger /\ [][NextEquity]_vars

\* ====================================================================
\* Properties
\* ====================================================================
Applied == last.op = "apply_order" /\ ~last.raised
LastOrder == orders[Len(orders)]

\* C1: after any sequence of apply_order calls with quantity > 0, every
\* Position has quantity >= 0; an oversized SELL does not drive it negative.
C1_QuantityNonNegative == \A t \in Tickers : positions[t].quantity >= 0

\* an oversized SELL of a held position has been applied
C1_Witness ==
    /\ Applied /\ last.side = "SELL"
    /\ last.held > 0 /\ last.quantity > last.held
    /\ positions[last.ticker].quantity = 0

\* C2: every Position whose quantity is 0 has avg_cost 0.
C2_ZeroQuantityZeroCost ==
    \A t \in Tickers : positions[t].quantity = 0 => positions[t].avg_cost = Zero

\* a position with a cost basis has been sold out exactly
C2_Witness ==
    /\ Applied /\ last.side = "SELL" /\ last.held > 0 /\ last.quantity = last.held
    /\ positions[last.ticker].present /\ positions[last.ticker].quantity = 0
    /\ orders[1].side = "BUY" /\ orders[1].price > 0

\* C3: replaying the recorded Orders in timestamp order from initial_cash and
\* an empty position map yields the live cash and per-ticker quantities.
C3_ReplayRoundTrip ==
    LET r == replay(OrderByTs(orders), Usd(InitialCashUsd))
    IN /\ r.cash = get_cash(Db)
       /\ \A t \in Tickers : r.positions[t] = positions[t].quantity

\* C4: the Order of a SELL stores the executed quantity min(requested, held).
C4_OrderStoresExecutedQuantity ==
    (Applied /\ last.side = "SELL") => LastOrder.quantity = Min(last.quantity, last.held)

\* C5: apply_order is all-or-nothing: a call that raised left cash, positions
\* and order log as they were, and every call makes durable either none or
\* all three of its cash update, position update and order insert.
C5_AllOrNothing ==
    [][last'.op = "apply_order" =>
         LET unchanged == kv' = kv /\ positions' = positions /\ orders' = orders
         IN /\ last'.raised => (unchanged /\ last'.writes = {})
            /\ \/ unchanged /\ last'.writes = {}
               \/ /\ last'.writes = Kinds
                  /\ Len(orders') = Len(orders) + 1
                  /\ kv'.present]_vars

\* a persistence fault hit an apply_order on a ledger that already holds an
\* order and a position
C5_Witness ==
    /\ last.op = "apply_order" /\ last.raised
    /\ Len(orders) > 0 /\ \E t \in Tickers : positions[t].quantity > 0

\* C6: a SELL of q with h held executes e = min(q, h): quantity h - e,
\* avg_cost 0 when h - e = 0 and unchanged otherwise, cash + e*fill -
\* commission with fill = price*(1 - bps/10000); selling 15 of 10 held at 110
\* from cash 98989.80 gives cash 100079.58, quantity 0, avg_cost 0.
C6_SellArithmetic ==
    [][(last'.op = "apply_order" /\ ~last'.raised /\ last'.side = "SELL") =>
         LET t == last'.ticker
             q == last'.quantity
             h == positions[t].quantity
             e == IF q < h THEN q ELSE h
             fill == last'.price * (BpsDenominator - SlippageBps)
         IN /\ positions'[t].quantity = h - e
            /\ positions'[t].avg_cost = IF h - e = 0 THEN Zero ELSE positions[t].avg_cost
            /\ kv'.present
            /\ kv'.value = get_cash(Db) + e * fill - Usd(CommissionUsd)
            /\ (q = 15 /\ h = 10 /\ last'.price = 110 /\ get_cash(Db) = 989898000)
                 => (kv'.value = 1000795800 /\ positions'[t].quantity = 0
                     /\ positions'[t].avg_cost = Zero)]_vars

\* scenario B has run
C6_Witness ==
    /\ Applied /\ last.side = "SELL" /\ last.quantity = 15 /\ last.held = 10
    /\ last.price = 110 /\ kv.value = 1000795800
    /\ positions[last.ticker].quantity = 0

\* C7: a BUY of q > 0 with h held at average cost a sets quantity h + q,
\* avg_cost (a*h + q*fill)/(h + q) and cash - (q*fill + commission), with
\* fill = price*(1 + bps/10000); from cash 100000, BUY 10 at 100 gives cash
\* 98989.80, avg_cost 100.02, quantity 10.
C7_BuyArithmetic ==
    [][(last'.op = "apply_order" /\ ~last'.raised /\ last'.side = "BUY") =>
         LET t == last'.ticker
             q == last'.quantity
             h == positions[t].quantity
             a == positions[t].avg_cost
             b == positions'[t].avg_cost
             fill == last'.price * (BpsDenominator + SlippageBps)
         IN /\ positions'[t].quantity = h + q
            /\ b[2] > 0
            /\ b[1] * (h + q) * a[2] = (a[1] * h + q * fill * a[2]) * b[2]
            /\ kv'.present
            /\ kv'.value = get_cash(Db) - (q * fill + Usd(CommissionUsd))
            /\ (q = 10 /\ h = 0 /\ last'.price = 100 /\ get_cash(Db) = Usd(100000))
                 => (kv'.value = 989898000 /\ b = <<1000200, 1>>
                     /\ positions'[t].quantity = 10)]_vars

\* a BUY has been added to a held position bought at another price
C7_Witness ==
    /\ Applied /\ last.side = "BUY" /\ last.held = 10 /\ last.quantity = 15
    /\ last.price = 110 /\ Len(orders) = 2 /\ orders[1].price = 1000200
    /\ positions[last.ticker].quantity = 25
    /\ positions[last.ticker].avg_cost = <<1060212, 1>>

\* C8: with slippage_bps >= 0 and price >= 0 the recorded fill price is >=
\* the reference price for a BUY and <= the reference price for a SELL.
C8_SlippageAdverse ==
    Applied =>
        /\ last.side = "BUY" => LastOrder.price >= Usd(last.price)
        /\ last.side = "SELL" => LastOrder.price <= Usd(last.price)

\* a SELL and slippage above 100% has been filled away from its reference
C8_Witness ==
    /\ Applied /\ last.side = "SELL" /\ last.price = 110
    /\ LastOrder.slippage_bps = 10001 /\ LastOrder.price < 0

\* C9: starting from initial_cash >= 0, after any sequence of intents that
\* each pass evaluate_order and are executed by apply_order as simulate_orders
\* does, the ledger cash is >= 0.
C9_CashNonNegative == get_cash(Db) >= 0

\* C10 as stated: after bootstrap every change of the stored cash value is
\* made by an apply_order that appends an Order in the same commit.
C10_CashOnlyByApplyOrder ==
    [][kv' # kv =>
         /\ last'.op \in {"apply_order", "simulate_orders"}
         /\ Len(orders') > Len(orders)
         /\ {"cash", "order"} \subseteq last'.writes]_vars

\* C10 amended: after bootstrap every change of the stored cash value is made
\* either by an apply_order that appends an Order in the same commit, or by
\* the startup reset (set_cash without an Order).
C10_CashByApplyOrderOrStartupReset ==
    [][kv' # kv =>
         \/ /\ last'.op \in {"apply_order", "simulate_orders"}
            /\ Len(orders') > Len(orders)
            /\ {"cash", "order"} \subseteq last'.writes
         \/ /\ last'.op = "start_auto_trader"
            /\ orders' = orders /\ positions' = positions
            /\ last'.writes = {"cash"}]_vars

\* the startup reset has overwritten the cash of a ledger that holds orders
C10_Witness ==
    /\ last.op = "start_auto_trader" /\ last.writes = {"cash"}
    /\ Len(orders) > 0 /\ kv.value = Usd(50000)

\* C11: no apply_order runs while the cash record is unset; the first Order's
\* cash delta is applied to initial_cash.
C11_CashSetBeforeFirstOrder ==
    [][Len(orders') > Len(orders) => kv.present]_vars

\* C12: ensure_initialized called where a cash record exists (also one of 0
\* or one changed by orders) leaves cash, positions and orders unchanged,
\* whatever initial_cash is passed; where none exists it sets initial_cash.
C12_EnsureInitializedIdempotent ==
    [][last'.op = "ensure_initialized" =>
         /\ kv.present => (kv' = kv /\ positions' = positions /\ orders' = orders)
         /\ (~kv.present /\ ~last'.raised) =>
              /\ kv' = [present |-> TRUE, value |-> last'.initial_cash]
              /\ positions' = positions /\ orders' = orders]_vars

\* ensure_initialized(1500) has returned on a ledger whose cash is 0
C12_Witness ==
    /\ last.op = "ensure_initialized" /\ ~last.raised
    /\ last.initial_cash = Usd(1500)
    /\ kv.present /\ kv.value = 0

C14_PositionCreatedByBuy ==
    [][\A t \in Tickers :
         /\ positions[t].present => positions'[t].present
         /\ (~positions[t].present /\ positions'[t].present) =>
              (last'.op = "apply_order" /\ last'.ticker = t /\ last'.side = "BUY")]_vars

\* C14 amended: a Position row appears on the first order of either side
\* applied for its ticker (a SELL of a ticker never bought creates a row of
\* quantity 0 and avg_cost 0), and an existing row is never deleted.
C14_PositionCreatedByFirstOrder ==
    [][\A t \in Tickers :
         /\ positions[t].present => positions'[t].present
         /\ (~positions[t].present /\ positions'[t].present) =>
              (last'.op = "apply_order" /\ last'.ticker = t)
         /\ (last'.op = "apply_order" /\ ~last'.raised /\ last'.ticker = t) =>
              positions'[t].present
         /\ (~positions[t].present /\ positions'[t].present /\ last'.side = "SELL") =>
              (positions'[t].quantity = 0 /\ positions'[t].avg_cost = Zero)]_vars

\* a first order that is a SELL has created a Position row, and a second
\* SELL has left it in place at quantity 0
C14_Witness ==
    /\ Applied /\ last.side = "SELL" /\ Len(orders) = 2
    /\ orders[1].side = "SELL" /\ orders[1].ticker = last.ticker
    /\ positions[last.ticker].present /\ positions[last.ticker].quantity = 0

Evaluated == last.op = "evaluate_order"
IsBuy(side) == side \in {"BUY", "buy"}
Reject(reason) == RuleDecision(FALSE, 0, <<reason>>)
CooldownActive ==
    /\ last.last_exit[last.ticker] # NoExit
    /\ last.now_et - last.last_exit[last.ticker] < CooldownMinutesAfterExit
NamesHeld == Cardinality({t \in Tickers : positions[t].quantity > 0})

\* C15: whenever day_orders_count >= max_orders_per_day the decision is
\* accepted = false, adjusted_quantity = 0, reasons exactly
\* [max_orders_per_day_exceeded], whatever the other arguments and the ledger.
C15_DailyLimitHardReject ==
    (Evaluated /\ last.day_orders_count >= settings.max_orders_per_day)
        => last.decision = Reject("max_orders_per_day_exceeded")

\* scenario D (count 10 at limit 10) on an undersized BUY in cooldown
C15_Witness ==
    /\ Evaluated /\ settings.max_orders_per_day = 10 /\ last.day_orders_count = 10
    /\ last.side = "BUY" /\ last.quantity = 5 /\ CooldownActive
    /\ last.decision.reasons = <<"max_orders_per_day_exceeded">>

\* C16 as stated: below the daily limit, a BUY with quantity*reference_price <
\* min_order_usd is rejected with exactly [min_order_breach].
C16_MinOrderHardReject ==
    (/\ Evaluated /\ last.day_orders_count < settings.max_orders_per_day
     /\ last.side = "BUY" /\ last.quantity * last.price < MinOrderUsd)
        => last.decision = Reject("min_order_breach")

\* C16 amended: below the daily limit, a BUY with |quantity|*reference_price <
\* min_order_usd is rejected with exactly [min_order_breach], a single reason
\* even when the cooldown of the ticker is active.
C16_MinOrderHardRejectAbs ==
    (/\ Evaluated /\ last.day_orders_count < settings.max_orders_per_day
     /\ last.side = "BUY"
     /\ (IF last.quantity < 0 THEN 0 - last.quantity ELSE last.quantity) * last.price
          < MinOrderUsd)
        => last.decision = Reject("min_order_breach")

\* scenario C (BUY of $500 against a minimum of $1000) with the cooldown active
C16_Witness ==
    /\ Evaluated /\ last.day_orders_count < settings.max_orders_per_day
    /\ last.side = "BUY" /\ last.quantity = 5 /\ last.price = 100 /\ CooldownActive
    /\ last.decision = Reject("min_order_breach")

\* C17: when neither hard reject fires, the reasons are exactly the
\* subsequence of [cooldown_active, min_cash_buffer_breach,
\* max_positions_reached] whose conditions hold, in that order.
C17_SoftChecksAccumulate ==
    LET notional == (IF last.quantity < 0 THEN 0 - last.quantity ELSE last.quantity)
                    * last.price
        cashUsd == last.cash \div MoneyScale
        buffer == /\ IsBuy(last.side)
                  /\ MinCashPctInverse * (cashUsd - notional - CommissionUsd) < cashUsd
        maxpos == /\ IsBuy(last.side) /\ last.held = 0
                  /\ NamesHeld >= settings.max_positions
    IN (/\ Evaluated /\ last.day_orders_count < settings.max_orders_per_day
        /\ ~(IsBuy(last.side) /\ notional < MinOrderUsd))
         => last.decision.reasons =
              (IF CooldownActive THEN <<"cooldown_active">> ELSE <<>>)
              \o (IF buffer THEN <<"min_cash_buffer_breach">> ELSE <<>>)
              \o (IF maxpos THEN <<"max_positions_reached">> ELSE <<>>)

\* one evaluation has reported all three soft reasons
C17_Witness ==
    /\ Evaluated
    /\ last.decision.reasons
         = <<"cooldown_active", "min_cash_buffer_breach", "max_positions_reached">>

\* C18 as stated: accepted exactly when the reason list is empty, and
\* adjusted_quantity is the requested quantity when accepted and 0 when not.
C18_BinaryAtRequestedSize ==
    Evaluated =>
        /\ last.decision.accepted <=> (last.decision.reasons = <<>>)
        /\ last.decision.adjusted_quantity
             = IF last.decision.accepted THEN last.quantity ELSE 0

\* C18 amended: accepted exactly when the reason list is empty, and
\* adjusted_quantity is max(0, requested quantity) when accepted (the
\* requested quantity whenever it is >= 0) and 0 when rejected.
C18_BinaryAtClampedSize ==
    Evaluated =>
        /\ last.decision.accepted <=> (last.decision.reasons = <<>>)
        /\ last.decision.adjusted_quantity
             = IF last.decision.accepted /\ last.quantity > 0 THEN last.quantity ELSE 0

\* an intent of negative size has been accepted at size 0
C18_Witness ==
    /\ Evaluated /\ last.quantity < 0
    /\ last.decision.accepted /\ last.decision.adjusted_quantity = 0

C21_EvaluateIsPureRead ==
    [][last'.op = "evaluate_order" =>
         /\ kv' = kv /\ positions' = positions /\ orders' = orders
         /\ last'.writes = {}
         /\ last'.last_exit_after = last'.last_exit]_vars

\* an accepted BUY of a ticker without a Position row has been evaluated on
\* a ledger with an order, against a map that holds an exit
C21_Witness ==
    /\ Evaluated /\ last.decision.accepted /\ last.side = "BUY"
    /\ ~positions[last.ticker].present /\ Len(orders) > 0
    /\ \E t \in Tickers : last.last_exit[t] # NoExit

\* the quantity of ticker t held after the first n orders of the log
RECURSIVE HeldAfter(_, _, _)
HeldAfter(log, n, t) ==
    IF n = 0 THEN 0
    ELSE LET h == HeldAfter(log, n - 1, t)
             o == log[n]
         IN IF o.ticker # t THEN h
            ELSE IF o.side = "BUY" THEN h + o.quantity
            ELSE h - (IF o.quantity < h THEN o.quantity ELSE h)

\* order i of the log sold a held position down to nothing
Exited(log, i) ==
    /\ log[i].side = "SELL"
    /\ HeldAfter(log, i - 1, log[i].ticker) > 0
    /\ HeldAfter(log, i, log[i].ticker) = 0

\* C22: once a position in a ticker has been exited at time t through the
\* admission pipeline, no order for that ticker executed afterwards, in the
\* same batch or in a later request, carries a timestamp earlier than
\* t + cooldown_minutes_after_exit.
C22_CooldownAfterExit ==
    \A i, j \in 1..Len(orders) :
        (i < j /\ Exited(orders, i) /\ orders[j].ticker = orders[i].ticker)
            => orders[j].ts_et >= orders[i].ts_et + CooldownMinutesAfterExit

\* the cash taken by the BUY orders of the log
RECURSIVE BuyCost(_)
BuyCost(log) ==
    IF log = <<>> THEN 0
    ELSE LET o == log[Len(log)]
         IN BuyCost(SubSeq(log, 1, Len(log) - 1)) + o.quantity * o.price + o.commission_usd

\* C23: applies on one ledger are serialized by the callers: no apply_order
\* reads cash, lets another apply_order commit and then writes its own cash,
\* so the cash after the recorded BUY orders reflects the cash delta of each
\* of them.
C23_NoLostUpdate == kv.value = Usd(InitialCashUsd) - BuyCost(orders)

\* C24: invalid trade intents never reach the execution engine: every
\* apply_order call, and so every Order and every cash change, comes from an
\* intent with side in {BUY, SELL} and quantity > 0.
C24_OnlyValidIntentsExecuted ==
    /\ \A i \in 1..Len(orders) : orders[i].side \in Sides /\ orders[i].quantity > 0
    /\ (orders = <<>> => kv.value = Usd(InitialCashUsd))

EquityServed == last.op = "get_equity_range" /\ ~last.raised
RangeStart == IF last.end < last.start THEN last.end ELSE last.start
RangeEnd == IF last.end < last.start THEN last.start ELSE last.end

\* C25: the point of each date d of the series reflects every committed
\* Order whose timestamp is on or before d, orders dated before start and
\* orders placed during the end date included, applied to initial_cash and
\* an empty position map.
C25_SeriesReplaysWholeHistory ==
    EquityServed =>
        \A i \in DOMAIN last.series :
            LET pt == last.series[i]
                r == replay(OrderByTs(SelectSeq(orders,
                                                LAMBDA o : date_of(o.ts_et) <= pt.date)),
                            Usd(InitialCashUsd))
            IN pt.cash = r.cash /\ pt.positions = r.positions

\* C26: over the orders handed to the replay loop, sorted by timestamp, the
\* cursor never decreases, every order is applied at most once, and at the
\* point of date d the applied orders are exactly the prefix of the orders
\* whose timestamp date is <= d.
C26_ReplayCursor ==
    EquityServed =>
        \A i \in DOMAIN last.series :
            LET pt == last.series[i]
                r == replay(SubSeq(last.handed, 1, pt.order_idx), Usd(InitialCashUsd))
            IN /\ pt.order_idx \in 0..Len(last.handed)
               /\ \A k \in 1..Len(last.handed) :
                     (k <= pt.order_idx) <=> (date_of(last.handed[k].ts_et) <= pt.date)
               /\ (i > 1 => last.series[i - 1].order_idx <= pt.order_idx)
               /\ pt.cash = r.cash /\ pt.positions = r.positions

\* the cursor has moved on two successive dates and then stayed
C26_Witness ==
    /\ EquityServed /\ Len(last.series) = 3
    /\ last.series[1].order_idx = 1 /\ last.series[2].order_idx = 2
    /\ last.series[3].order_idx = 2

\* the close valuing ticker t at point i: the close of the latest date up
\* to that point on which t was held and had a close, 0 when there is none
LastKnownClose(t, i) ==
    LET seen == {j \in 1..i : /\ last.series[j].positions[t] # 0
                              /\ last.closes[t][last.series[j].date] # NoClose}
    IN IF seen = {} THEN 0
       ELSE Usd(last.closes[t][last.series[CHOOSE j \in seen : \A k \in seen : k <= j].date])

\* cash plus the positions of point i at their last known closes
MarkedToMarket(i) ==
    LET pt == last.series[i]
    IN pt.cash + SumOver([t \in Tickers |-> pt.positions[t] * LastKnownClose(t, i)], Tickers)

\* one point per date of the range, in ascending order
OnePointPerDate ==
    /\ Len(last.series) = RangeEnd - RangeStart + 1
    /\ \A i \in DOMAIN last.series : last.series[i].date = RangeStart + i - 1

\* a single BUY of 10 shares on a date with close 100, the next date with
\* close 110: the equity rises by 100
RisingScenario(i) ==
    /\ i + 1 <= Len(last.series)
    /\ Len(last.handed) = 1 /\ last.handed[1].side = "BUY" /\ last.handed[1].quantity = 10
    /\ date_of(last.handed[1].ts_et) = last.series[i].date
    /\ last.closes[last.handed[1].ticker][last.series[i].date] = 100
    /\ last.closes[last.handed[1].ticker][last.series[i + 1].date] = 110

\* C27 as stated: exactly one EquityPoint per date of the range, ascending,
\* with equity = replay cash + sum of quantity * last known close over the
\* tickers of nonzero quantity; in the scenario of one BUY of 10 with closes
\* 100 and 110 the second equity exceeds the first by 100.
C27_EquityIsCashPlusMarks ==
    EquityServed =>
        /\ OnePointPerDate
        /\ \A i \in DOMAIN last.series :
              /\ last.series[i].equity = MarkedToMarket(i)
              /\ RisingScenario(i)
                   => last.series[i + 1].equity - last.series[i].equity = Usd(100)

\* C27 amended: exactly one EquityPoint per date of the range, ascending,
\* with equity = replay cash + sum of quantity * last known close over the
\* tickers of nonzero quantity, rounded to the nearest cent; in the scenario
\* the second equity exceeds the first by 100.
C27_EquityIsRoundedCashPlusMarks ==
    EquityServed =>
        /\ OnePointPerDate
        /\ \A i \in DOMAIN last.series :
              /\ last.series[i].equity % 100 = 0
              /\ 2 * (last.series[i].equity - MarkedToMarket(i)) \in (0 - 100)..100
              /\ RisingScenario(i)
                   => last.series[i + 1].equity - last.series[i].equity = Usd(100)

\* the scenario has been replayed, on a cash with a fraction of a cent
C27_Witness ==
    /\ EquityServed /\ RisingScenario(1)
    /\ last.series[1].cash % 100 # 0
    /\ last.series[2].equity - last.series[1].equity = Usd(100)

\* C28: on a date with no close for a held ticker the position is valued at
\* the most recent close observed on an earlier replay date on which it was
\* held, or at 0 when none has been observed; the replay is not aborted, a
\* point is emitted for that date and for every later one.
C28_GapCarriesForward ==
    last.op = "get_equity_range" /\ last.start # Malformed =>
        /\ ~last.raised
        /\ Len(last.series) = RangeEnd - RangeStart + 1
        /\ \A i \in DOMAIN last.series : \A t \in Tickers :
              LET pt == last.series[i]
                  earlier == {j \in 1..(i - 1) :
                                /\ last.series[j].positions[t] # 0
                                /\ last.closes[t][last.series[j].date] # NoClose}
              IN (pt.positions[t] # 0 /\ last.closes[t][pt.date] = NoClose)
                   => pt.contrib[t] =
                        IF earlier = {} THEN 0
                        ELSE pt.positions[t]
                             * Usd(last.closes[t][last.series[
                                     CHOOSE j \in earlier : \A k \in earlier : k <= j].date])

\* a held ticker without a close has been valued at the close of an earlier
\* date, and another held ticker that never had a close at 0, on a date
\* that is not the last of the series
C28_Witness ==
    /\ EquityServed
    /\ \E i \in DOMAIN last.series : \E t, u \in Tickers :
          /\ i < Len(last.series)
          /\ last.series[i].positions[t] # 0 /\ last.closes[t][last.series[i].date] = NoClose
          /\ last.series[i].contrib[t] = last.series[i].positions[t] * Usd(100)
          /\ last.series[i].positions[u] # 0 /\ last.series[i].contrib[u] = 0

\* C30: a request whose end date is earlier than its start date results in
\* a validation error and produces no equity series.
C30_InvalidRangeRejected ==
    (last.op = "get_equity_range" /\ last.start # Malformed /\ last.end < last.start)
        => (last.raised /\ last.series = <<>>)

\* C31: starting from a ledger with at most max_positions tickers held, after
\* any sequence of intents each evaluated against the current ledger and
\* executed only when accepted, the number of tickers with quantity > 0 never
\* exceeds max_positions.
C31_PositionCountWithinLimit == NamesHeld <= settings.max_positions

\* with the limit reached, a BUY that would open a second name has been
\* rejected for it
C31_Witness ==
    /\ last.op = "simulate_orders" /\ NamesHeld = settings.max_positions
    /\ \E i \in DOMAIN last.results :
          /\ last.results[i].side = "BUY" /\ positions[last.results[i].ticker].quantity = 0
          /\ last.results[i].reasons = <<"max_positions_reached">>

\* C32: over any sequence of admission batches, the number of executed Orders
\* whose timestamps fall on the same calendar day never exceeds
\* max_orders_per_day.
C32_DailyCapAcrossRequests ==
    \A i \in 1..Len(orders) :
        Cardinality({j \in 1..Len(orders) :
                       date_of(orders[j].ts_et) = date_of(orders[i].ts_et)})
          <= settings.max_orders_per_day

\* the number of accepted proposals among the first i results
RECURSIVE AcceptedUpTo(_, _)
AcceptedUpTo(results, i) ==
    IF i = 0 THEN 0
    ELSE AcceptedUpTo(results, i - 1) + (IF results[i].accepted THEN 1 ELSE 0)

\* C33: within one simulate_orders batch the order counter equals the number
\* of Orders the batch has executed; at most max_orders_per_day proposals
\* are executed, every proposal after that many executions is rejected with
\* exactly [max_orders_per_day_exceeded], and rejected proposals change
\* nothing in the ledger.
C33_BatchCounter ==
    [][(last'.op = "simulate_orders" /\ ~last'.raised) =>
         LET res == last'.results
             n == AcceptedUpTo(res, Len(res))
         IN /\ last'.day_orders_count = n
            /\ Len(orders') = Len(orders) + n
            /\ n <= settings.max_orders_per_day
            /\ \A i \in DOMAIN res :
                  AcceptedUpTo(res, i - 1) >= settings.max_orders_per_day
                    => /\ ~res[i].accepted
                       /\ res[i].reasons = <<"max_orders_per_day_exceeded">>
            /\ (n = 0 => kv' = kv /\ positions' = positions /\ orders' = orders)]_vars

\* a batch of two has executed its first proposal and had its second
\* rejected for the daily limit
C33_Witness ==
    /\ last.op = "simulate_orders" /\ Len(last.results) = 2
    /\ last.results[1].accepted
    /\ last.results[2].reasons = <<"max_orders_per_day_exceeded">>
    /\ last.day_orders_count = 1 /\ Len(orders) = 1

\* C34: in simulate_orders a ticker enters the last-exit map only by an
\* executed SELL that brings its held quantity to 0: every proposal rejected
\* with cooldown_active follows, in its batch, an executed SELL of its
\* ticker that sold a held position down to nothing.
C34_CooldownOnlyAfterExit ==
    [][(last'.op = "simulate_orders" /\ ~last'.raised) =>
         \A i \in DOMAIN last'.results :
             (\E k \in DOMAIN last'.results[i].reasons :
                  last'.results[i].reasons[k] = "cooldown_active")
               => \E j \in 1..(i - 1) :
                     /\ last'.results[j].accepted /\ last'.results[j].side = "SELL"
                     /\ last'.results[j].ticker = last'.results[i].ticker
                     /\ Exited(orders', Len(orders) + AcceptedUpTo(last'.results, j))]_vars

\* C35: a side value other than BUY is handled by apply_order exactly like a
\* SELL: the fill price is price * (1 - bps/10000), the quantity is clamped
\* to the held quantity, cash is credited with the clamped notional minus
\* the commission, an Order carrying the side string as given is appended,
\* and no error is raised.
C35_OtherSideHandledAsSell ==
    [][(last'.op = "apply_order" /\ last'.side # "BUY") =>
         LET fill == last'.price * (BpsDenominator - SlippageBps)
             sold == IF last'.quantity < last'.held THEN last'.quantity ELSE last'.held
         IN /\ ~last'.raised
            /\ positions'[last'.ticker].quantity = last'.held - sold
            /\ kv'.value = get_cash(Db) + sold * fill - Usd(CommissionUsd)
            /\ Len(orders') = Len(orders) + 1
            /\ orders'[Len(orders')].side = last'.side
            /\ orders'[Len(orders')].price = fill]_vars

\* an oversized order with side HOLD has sold out a held position
C35_Witness ==
    /\ Applied /\ last.side = "HOLD" /\ last.held = 10 /\ last.quantity = 10
    /\ positions[last.ticker].quantity = 0 /\ LastOrder.side = "HOLD"

\* C36: for any order history produced by apply_order calls with quantity > 0,
\* the per-ticker quantity maintained by the equity replay is >= 0.
C36_ReplayLongOnly ==
    EquityServed =>
        \A i \in DOMAIN last.series : \A t \in Tickers : last.series[i].positions[t] >= 0

\* C38: apply_order for ticker T changes only T's Position, the cash balance
\* and the order log: the Position of every other ticker is as it was.
C38_OtherPositionsUntouched ==
    [][last'.op = "apply_order" =>
         \A t \in Tickers :
             (last'.raised \/ t # last'.ticker) => positions'[t] = positions[t]]_vars

\* an order has been applied while another ticker was held
C38_Witness ==
    /\ Applied /\ Len(orders) = 2
    /\ \E t \in Tickers : t # last.ticker /\ positions[t].quantity > 0
    /\ positions[last.ticker].present

\* C37: every Order created through the admission pipeline has a strictly
\* positive fill price and a strictly positive quantity; no accepted intent
\* is executed at reference price 0.
C37_PositivePriceAndQuantity ==
    \A i \in 1..Len(orders) : orders[i].price > 0 /\ orders[i].quantity > 0

\* one progress event per day visited so far, in ascending order of days,
\* each with status ok or error
ProgressInOrder ==
    /\ Len(backtest.events) = backtest.cur - backtest.start
    /\ \A i \in DOMAIN backtest.events :
          /\ backtest.events[i].day = backtest.start + i - 1
          /\ backtest.events[i].status \in {"ok", "error"}

====
